---- MODULE Spec2Model ----
(***************************************************************************)
(* Model of the in-memory RateLimiter (fixed window, sliding window and    *)
(* token bucket) with its store, its clock and its periodic eviction       *)
(* sweep.  Times are integer milliseconds; the clock never goes backwards. *)
(***************************************************************************)
EXTENDS Integers, Sequences, FiniteSets, TLC

VARIABLES
    config,           \* the merged configuration of the instance
    host,             \* "node": timer handles have unref(); "browser": they are numbers
    now,              \* Date.now()
    store,            \* Map<StoreKey, Entry>, a function on the stored keys
    timerActive,      \* the setInterval timer of the constructor is still scheduled
    cleanupInterval,  \* the private field holding the timer handle
    result,           \* the RateLimitResult returned by the last check
    lastOp,           \* the call just made: "check" (it returned result), "throw" (a
                      \* check that threw), "clear", or "none" after any other step
    reqs,             \* per key: times of the check calls since the last clear()
    seen,             \* per key: times of the check calls since the stored entry was created
    calls,            \* number of check calls made so far
    held,             \* the object that the last getEntry handed to the caller
    verdicts          \* per key: the limited flag of each check recorded in reqs

vars ==
    <<config, host, now, store, timerActive, cleanupInterval, result, lastOp,
      reqs, seen, calls, held, verdicts>>

(***************************************************************************)
(* Bounds of the model.                                                    *)
(***************************************************************************)
MaxTime == 3
MaxChecks == 3

(***************************************************************************)
(* Inputs: endpoint / identifier strings and configurations.               *)
(***************************************************************************)
Pairs == {<<"", "">>, <<"", ":">>, <<":", "">>}
Algorithms == {"FIXED_WINDOW", "SLIDING_WINDOW", "TOKEN_BUCKET"}
\* The option is a plain string at run time: a value outside the enum.
UnknownAlgorithm == "leaky-bucket"
Maxes == {0, 1, 2}
Windows == {2, 3}
Precisions == {1, 2}
RefillRates == {0, 1, 2}
RefillIntervals == {2}

DefaultPrecision == 100
DefaultRefillRate == 1
DefaultRefillInterval == 1000

\* What a caller writes into a field of an entry object it was handed.
EntryFields == {"count", "resetTime", "tokens", "lastRefill", "buckets"}
Mutated == 999

Max2(a, b) == IF a >= b THEN a ELSE b
Min2(a, b) == IF a <= b THEN a ELSE b

RECURSIVE SetMin(_)
SetMin(S) ==
    LET x == CHOOSE y \in S : TRUE
    IN  IF S = {x} THEN x ELSE Min2(x, SetMin(S \ {x}))

RECURSIVE SumOver(_, _)
SumOver(f, S) ==
    IF S = {} THEN 0
    ELSE LET x == CHOOSE y \in S : TRUE
         IN  f[x] + SumOver(f, S \ {x})

generateKey(endpoint, identifier) == endpoint \o ":" \o identifier

Keys == {generateKey(p[1], p[2]) : p \in Pairs}

NoResult ==
    [limited |-> FALSE, remaining |-> 0, reset |-> 0, current |-> 0,
     limit |-> 0, window |-> 0, nan |-> {}]

NullEntry == [null |-> TRUE]

NoCall == [op |-> "none", key |-> ""]

\* The caller holds no entry object.
NoHeld == [key |-> "", fields |-> <<>>, map |-> "none", buckets |-> <<>>]

(***************************************************************************)
(* Private helpers of the class.                                           *)
(***************************************************************************)
createNewEntry(t) == [count |-> 0, resetTime |-> t + config.window]

getOrCreateEntry(st, key, t) ==
    IF key \notin DOMAIN st \/ st[key].resetTime <= t
    THEN createNewEntry(t)
    ELSE st[key]

\* A field that the entry lacks reads as undefined; arithmetic on it gives
\* NaN, recorded in the set nan of the result's field names.
\* Variant: a limit of zero or less switches the limiter off.
createRateLimitResult_zeroMeansUnlimited(entry) ==
    IF config.algorithm = "TOKEN_BUCKET"
    THEN IF "tokens" \in DOMAIN entry
         THEN [limited |-> config.max > 0 /\ entry.tokens < 0,
               remaining |-> Max2(entry.tokens, 0),
               reset |-> entry.resetTime,
               current |-> config.max - entry.tokens,
               limit |-> config.max,
               window |-> config.window,
               nan |-> {}]
         ELSE [limited |-> FALSE,
               remaining |-> 0,
               reset |-> entry.resetTime,
               current |-> 0,
               limit |-> config.max,
               window |-> config.window,
               nan |-> {"remaining", "current"}]
    ELSE [limited |-> config.max > 0 /\ entry.count > config.max,
          remaining |-> Max2(config.max - entry.count, 0),
          reset |-> entry.resetTime,
          current |-> entry.count,
          limit |-> config.max,
          window |-> config.window,
          nan |-> {}]

createRateLimitResult(entry) ==
    IF config.algorithm = "TOKEN_BUCKET"
    THEN IF "tokens" \in DOMAIN entry
         THEN [limited |-> entry.tokens < 0,
               remaining |-> Max2(entry.tokens, 0),
               reset |-> entry.resetTime,
               current |-> config.max - entry.tokens,
               limit |-> config.max,
               window |-> config.window,
               nan |-> {}]
         ELSE [limited |-> FALSE,
               remaining |-> 0,
               reset |-> entry.resetTime,
               current |-> 0,
               limit |-> config.max,
               window |-> config.window,
               nan |-> {"remaining", "current"}]
    ELSE [limited |-> entry.count > config.max,
          remaining |-> Max2(config.max - entry.count, 0),
          reset |-> entry.resetTime,
          current |-> entry.count,
          limit |-> config.max,
          window |-> config.window,
          nan |-> {}]

Put(st, key, entry) ==
    [k \in DOMAIN st \cup {key} |-> IF k = key THEN entry ELSE st[k]]

(***************************************************************************)
(* The three algorithms.  Each returns the new store and the result.       *)
(***************************************************************************)
\* Variant: the counter stops one past the limit.
checkFixedWindow_clamped(st, key, t) ==
    LET e0 == getOrCreateEntry(st, key, t)
        e1 == IF e0.resetTime <= t
              THEN [e0 EXCEPT !.count = 0, !.resetTime = t + config.window]
              ELSE e0
        e2 == [e1 EXCEPT !.count = Min2(@ + 1, config.max + 1)]
    IN  [store |-> Put(st, key, e2), result |-> createRateLimitResult(e2)]

\* Variant: every check pushes the end of the open window to now + window.
checkFixedWindow_extending(st, key, t) ==
    LET e0 == getOrCreateEntry(st, key, t)
        e1 == IF e0.resetTime <= t
              THEN [e0 EXCEPT !.count = 0, !.resetTime = t + config.window]
              ELSE e0
        e2 == [e1 EXCEPT !.count = @ + 1, !.resetTime = t + config.window]
    IN  [store |-> Put(st, key, e2), result |-> createRateLimitResult(e2)]

\* Variant: a window is still open at the instant of its windowEnd.
checkFixedWindow_strict(st, key, t) ==
    LET e0 == IF key \notin DOMAIN st \/ st[key].resetTime < t
              THEN createNewEntry(t)
              ELSE st[key]
        e1 == IF e0.resetTime < t
              THEN [e0 EXCEPT !.count = 0, !.resetTime = t + config.window]
              ELSE e0
        e2 == [e1 EXCEPT !.count = @ + 1]
    IN  [store |-> Put(st, key, e2), result |-> createRateLimitResult(e2)]

checkFixedWindow(st, key, t) ==
    LET e0 == getOrCreateEntry(st, key, t)
        e1 == IF e0.resetTime <= t
              THEN [e0 EXCEPT !.count = 0, !.resetTime = t + config.window]
              ELSE e0
        e2 == [e1 EXCEPT !.count = @ + 1]
    IN  [store |-> Put(st, key, e2), result |-> createRateLimitResult(e2)]

\* Variant: a bucket lying exactly on roundedNow - window is kept.
checkSlidingWindow_inclusive(st, key, t) ==
    LET e0 == IF key \in DOMAIN st
              THEN st[key]
              ELSE [count |-> 0, buckets |-> <<>>, resetTime |-> t + config.window]
        roundedNow == (t \div config.precision) * config.precision
        windowStart == roundedNow - config.window
        kept == {ts \in DOMAIN e0.buckets : ts >= windowStart}
        totalCount == SumOver(e0.buckets, kept) + 1
        currentCount == (IF roundedNow \in kept THEN e0.buckets[roundedNow] ELSE 0) + 1
        buckets == [ts \in kept \cup {roundedNow} |->
                       IF ts = roundedNow THEN currentCount ELSE e0.buckets[ts]]
        e1 == [count |-> totalCount,
               buckets |-> buckets,
               resetTime |-> SetMin(DOMAIN buckets) + config.window]
    IN  [store |-> Put(st, key, e1), result |-> createRateLimitResult(e1)]

\* Variant: the bucket one precision step inside the window is dropped too.
checkSlidingWindow_shortWindow(st, key, t) ==
    LET e0 == IF key \in DOMAIN st
              THEN st[key]
              ELSE [count |-> 0, buckets |-> <<>>, resetTime |-> t + config.window]
        roundedNow == (t \div config.precision) * config.precision
        windowStart == roundedNow - config.window
        kept == {ts \in DOMAIN e0.buckets : ts > windowStart + config.precision}
        totalCount == SumOver(e0.buckets, kept) + 1
        currentCount == (IF roundedNow \in kept THEN e0.buckets[roundedNow] ELSE 0) + 1
        buckets == [ts \in kept \cup {roundedNow} |->
                       IF ts = roundedNow THEN currentCount ELSE e0.buckets[ts]]
        e1 == [count |-> totalCount,
               buckets |-> buckets,
               resetTime |-> SetMin(DOMAIN buckets) + config.window]
    IN  [store |-> Put(st, key, e1), result |-> createRateLimitResult(e1)]

\* Variant: buckets that have left the window are left in the map.
checkSlidingWindow_noPrune(st, key, t) ==
    LET e0 == IF key \in DOMAIN st
              THEN st[key]
              ELSE [count |-> 0, buckets |-> <<>>, resetTime |-> t + config.window]
        roundedNow == (t \div config.precision) * config.precision
        windowStart == roundedNow - config.window
        kept == {ts \in DOMAIN e0.buckets : ts > windowStart}
        totalCount == SumOver(e0.buckets, kept) + 1
        currentCount == (IF roundedNow \in kept THEN e0.buckets[roundedNow] ELSE 0) + 1
        buckets == [ts \in DOMAIN e0.buckets \cup {roundedNow} |->
                       IF ts = roundedNow THEN currentCount ELSE e0.buckets[ts]]
        e1 == [count |-> totalCount,
               buckets |-> buckets,
               resetTime |-> SetMin(DOMAIN buckets) + config.window]
    IN  [store |-> Put(st, key, e1), result |-> createRateLimitResult(e1)]

\* Variant: the reset is counted from the current bucket.
checkSlidingWindow_resetFromNow(st, key, t) ==
    LET e0 == IF key \in DOMAIN st
              THEN st[key]
              ELSE [count |-> 0, buckets |-> <<>>, resetTime |-> t + config.window]
        roundedNow == (t \div config.precision) * config.precision
        windowStart == roundedNow - config.window
        kept == {ts \in DOMAIN e0.buckets : ts > windowStart}
        totalCount == SumOver(e0.buckets, kept) + 1
        currentCount == (IF roundedNow \in kept THEN e0.buckets[roundedNow] ELSE 0) + 1
        buckets == [ts \in kept \cup {roundedNow} |->
                       IF ts = roundedNow THEN currentCount ELSE e0.buckets[ts]]
        e1 == [count |-> totalCount,
               buckets |-> buckets,
               resetTime |-> roundedNow + config.window]
    IN  [store |-> Put(st, key, e1), result |-> createRateLimitResult(e1)]

checkSlidingWindow(st, key, t) ==
    LET e0 == IF key \in DOMAIN st
              THEN st[key]
              ELSE [count |-> 0, buckets |-> <<>>, resetTime |-> t + config.window]
        roundedNow == (t \div config.precision) * config.precision
        windowStart == roundedNow - config.window
        kept == {ts \in DOMAIN e0.buckets : ts > windowStart}
        totalCount == SumOver(e0.buckets, kept) + 1
        currentCount == (IF roundedNow \in kept THEN e0.buckets[roundedNow] ELSE 0) + 1
        buckets == [ts \in kept \cup {roundedNow} |->
                       IF ts = roundedNow THEN currentCount ELSE e0.buckets[ts]]
        e1 == [count |-> totalCount,
               buckets |-> buckets,
               resetTime |-> IF DOMAIN buckets # {}
                             THEN SetMin(DOMAIN buckets) + config.window
                             ELSE roundedNow + config.window]
    IN  [store |-> Put(st, key, e1), result |-> createRateLimitResult(e1)]

\* Variant: an empty bucket is not driven into deficit.
checkTokenBucket_floored(st, key, t) ==
    LET e0 == IF key \in DOMAIN st
              THEN st[key]
              ELSE [tokens |-> config.max, lastRefill |-> t,
                    resetTime |-> t + config.window]
        timePassed == t - e0.lastRefill
        tokensToAdd == (timePassed \div config.refillInterval) * config.refillRate
        e1 == IF tokensToAdd > 0
              THEN [e0 EXCEPT
                       !.tokens = Min2(Max2(@ + tokensToAdd, tokensToAdd), config.max),
                       !.lastRefill = t]
              ELSE e0
        e2 == [e1 EXCEPT !.tokens = Max2(@ - 1, -1)]
        r == createRateLimitResult(e2)
    IN  [store |-> Put(st, key, e2),
         result |-> [r EXCEPT !.remaining = Max2(e2.tokens, 0)]]

\* Variant: the refill does not forgive a deficit.
checkTokenBucket_plainRefill(st, key, t) ==
    LET e0 == IF key \in DOMAIN st
              THEN st[key]
              ELSE [tokens |-> config.max, lastRefill |-> t,
                    resetTime |-> t + config.window]
        timePassed == t - e0.lastRefill
        tokensToAdd == (timePassed \div config.refillInterval) * config.refillRate
        e1 == IF tokensToAdd > 0
              THEN [e0 EXCEPT
                       !.tokens = Min2(@ + tokensToAdd, config.max),
                       !.lastRefill = t]
              ELSE e0
        e2 == [e1 EXCEPT !.tokens = @ - 1]
        r == createRateLimitResult(e2)
    IN  [store |-> Put(st, key, e2),
         result |-> [r EXCEPT !.remaining = Max2(e2.tokens, 0)]]

\* Variant: a refill interval that has only begun already pays out.
checkTokenBucket_eagerRefill(st, key, t) ==
    LET e0 == IF key \in DOMAIN st
              THEN st[key]
              ELSE [tokens |-> config.max, lastRefill |-> t,
                    resetTime |-> t + config.window]
        timePassed == t - e0.lastRefill
        tokensToAdd ==
            ((timePassed + config.refillInterval - 1) \div config.refillInterval)
                * config.refillRate
        e1 == IF tokensToAdd > 0
              THEN [e0 EXCEPT
                       !.tokens = Min2(Max2(@ + tokensToAdd, tokensToAdd), config.max),
                       !.lastRefill = t]
              ELSE e0
        e2 == [e1 EXCEPT !.tokens = @ - 1]
        r == createRateLimitResult(e2)
    IN  [store |-> Put(st, key, e2),
         result |-> [r EXCEPT !.remaining = Max2(e2.tokens, 0)]]

\* Variant: the refill is not capped at max.
checkTokenBucket_uncapped(st, key, t) ==
    LET e0 == IF key \in DOMAIN st
              THEN st[key]
              ELSE [tokens |-> config.max, lastRefill |-> t,
                    resetTime |-> t + config.window]
        timePassed == t - e0.lastRefill
        tokensToAdd == (timePassed \div config.refillInterval) * config.refillRate
        e1 == IF tokensToAdd > 0
              THEN [e0 EXCEPT
                       !.tokens = Max2(@ + tokensToAdd, tokensToAdd),
                       !.lastRefill = t]
              ELSE e0
        e2 == [e1 EXCEPT !.tokens = @ - 1]
        r == createRateLimitResult(e2)
    IN  [store |-> Put(st, key, e2),
         result |-> [r EXCEPT !.remaining = Max2(e2.tokens, 0)]]

\* Variant: every check stamps lastRefill, whether or not it added tokens.
checkTokenBucket_stampsAlways(st, key, t) ==
    LET e0 == IF key \in DOMAIN st
              THEN st[key]
              ELSE [tokens |-> config.max, lastRefill |-> t,
                    resetTime |-> t + config.window]
        timePassed == t - e0.lastRefill
        tokensToAdd == (timePassed \div config.refillInterval) * config.refillRate
        e1 == IF tokensToAdd > 0
              THEN [e0 EXCEPT
                       !.tokens = Min2(Max2(@ + tokensToAdd, tokensToAdd), config.max),
                       !.lastRefill = t]
              ELSE [e0 EXCEPT !.lastRefill = t]
        e2 == [e1 EXCEPT !.tokens = @ - 1]
        r == createRateLimitResult(e2)
    IN  [store |-> Put(st, key, e2),
         result |-> [r EXCEPT !.remaining = Max2(e2.tokens, 0)]]

\* Variant: a check that takes the last token is already rejected.
checkTokenBucket_limitsAtZero(st, key, t) ==
    LET e0 == IF key \in DOMAIN st
              THEN st[key]
              ELSE [tokens |-> config.max, lastRefill |-> t,
                    resetTime |-> t + config.window]
        timePassed == t - e0.lastRefill
        tokensToAdd == (timePassed \div config.refillInterval) * config.refillRate
        e1 == IF tokensToAdd > 0
              THEN [e0 EXCEPT
                       !.tokens = Min2(Max2(@ + tokensToAdd, tokensToAdd), config.max),
                       !.lastRefill = t]
              ELSE e0
        e2 == [e1 EXCEPT !.tokens = @ - 1]
        r == createRateLimitResult(e2)
    IN  [store |-> Put(st, key, e2),
         result |-> [r EXCEPT !.remaining = Max2(e2.tokens, 0),
                              !.limited = e2.tokens <= 0]]

checkTokenBucket(st, key, t) ==
    LET e0 == IF key \in DOMAIN st
              THEN st[key]
              ELSE [tokens |-> config.max, lastRefill |-> t,
                    resetTime |-> t + config.window]
        timePassed == t - e0.lastRefill
        tokensToAdd == (timePassed \div config.refillInterval) * config.refillRate
        e1 == IF tokensToAdd > 0
              THEN [e0 EXCEPT
                       !.tokens = Min2(Max2(@ + tokensToAdd, tokensToAdd), config.max),
                       !.lastRefill = t]
              ELSE e0
        e2 == [e1 EXCEPT !.tokens = @ - 1]
        r == createRateLimitResult(e2)
    IN  [store |-> Put(st, key, e2),
         result |-> [r EXCEPT !.remaining = Max2(e2.tokens, 0)]]

check(st, key, t) ==
    CASE config.algorithm = "FIXED_WINDOW" -> checkFixedWindow(st, key, t)
      [] config.algorithm = "SLIDING_WINDOW" -> checkSlidingWindow(st, key, t)
      [] config.algorithm = "TOKEN_BUCKET" -> checkTokenBucket(st, key, t)
      [] OTHER -> [store |-> st, result |-> NoResult, error |-> "Unknown algorithm"]

\* The call threw instead of returning a Result.
Threw(r) == "error" \in DOMAIN r

\* Variant: the status read goes through the counting path.
get_counting(st, key, t) ==
    IF key \notin DOMAIN st
    THEN [store |-> st, result |-> createRateLimitResult(createNewEntry(t))]
    ELSE [store |-> check(st, key, t).store,
          result |-> createRateLimitResult(st[key])]

\* Variant: the status read prunes the buckets and leaves the stored count.
get_staleCount(st, key, t) ==
    IF key \notin DOMAIN st
    THEN [store |-> st, result |-> createRateLimitResult(createNewEntry(t))]
    ELSE IF config.algorithm = "SLIDING_WINDOW" /\ "buckets" \in DOMAIN st[key]
    THEN LET e0 == st[key]
             roundedNow == (t \div config.precision) * config.precision
             windowStart == roundedNow - config.window
             kept == {ts \in DOMAIN e0.buckets : ts > windowStart}
             buckets == [ts \in kept |-> e0.buckets[ts]]
             e1 == [count |-> e0.count,
                    buckets |-> buckets,
                    resetTime |-> IF kept # {}
                                  THEN SetMin(kept) + config.window
                                  ELSE e0.resetTime]
         IN  [store |-> Put(st, key, e1), result |-> createRateLimitResult(e1)]
    ELSE [store |-> st, result |-> createRateLimitResult(st[key])]

\* Variant: a get on a key without an entry stores the fresh entry it reports.
get_creating(st, key, t) ==
    IF key \notin DOMAIN st
    THEN [store |-> Put(st, key, createNewEntry(t)),
          result |-> createRateLimitResult(createNewEntry(t))]
    ELSE IF config.algorithm = "SLIDING_WINDOW" /\ "buckets" \in DOMAIN st[key]
    THEN LET e0 == st[key]
             roundedNow == (t \div config.precision) * config.precision
             windowStart == roundedNow - config.window
             kept == {ts \in DOMAIN e0.buckets : ts > windowStart}
             buckets == [ts \in kept |-> e0.buckets[ts]]
             e1 == [count |-> SumOver(e0.buckets, kept),
                    buckets |-> buckets,
                    resetTime |-> IF kept # {}
                                  THEN SetMin(kept) + config.window
                                  ELSE e0.resetTime]
         IN  [store |-> Put(st, key, e1), result |-> createRateLimitResult(e1)]
    ELSE [store |-> st, result |-> createRateLimitResult(st[key])]

get(st, key, t) ==
    IF key \notin DOMAIN st
    THEN [store |-> st, result |-> createRateLimitResult(createNewEntry(t))]
    ELSE IF config.algorithm = "SLIDING_WINDOW" /\ "buckets" \in DOMAIN st[key]
    THEN LET e0 == st[key]
             roundedNow == (t \div config.precision) * config.precision
             windowStart == roundedNow - config.window
             kept == {ts \in DOMAIN e0.buckets : ts > windowStart}
             buckets == [ts \in kept |-> e0.buckets[ts]]
             e1 == [count |-> SumOver(e0.buckets, kept),
                    buckets |-> buckets,
                    resetTime |-> IF kept # {}
                                  THEN SetMin(kept) + config.window
                                  ELSE e0.resetTime]
         IN  [store |-> Put(st, key, e1), result |-> createRateLimitResult(e1)]
    ELSE [store |-> st, result |-> createRateLimitResult(st[key])]

getEntry(st, key) == IF key \in DOMAIN st THEN st[key] ELSE NullEntry

\* Variant: only the entries that have not reached their resetTime count.
getSize_live(st) == Cardinality({k \in DOMAIN st : st[k].resetTime > now})

getSize(st) == Cardinality(DOMAIN st)

\* Variant: the sweep passes over entries that hold buckets.
cleanupExpiredEntries_countOnly(st, t) ==
    [k \in {x \in DOMAIN st : st[x].resetTime > t \/ "buckets" \in DOMAIN st[x]} |-> st[k]]

\* Variant: an entry whose resetTime is the current time is kept.
cleanupExpiredEntries_strict(st, t) ==
    [k \in {x \in DOMAIN st : st[x].resetTime >= t} |-> st[k]]

\* Variant: the sweep runs one millisecond ahead of the clock.
cleanupExpiredEntries_early(st, t) ==
    [k \in {x \in DOMAIN st : st[x].resetTime > t + 1} |-> st[k]]

cleanupExpiredEntries(st, t) ==
    [k \in {x \in DOMAIN st : st[x].resetTime > t} |-> st[k]]

(***************************************************************************)
(* Initial state: the constructor has run.                                 *)
(***************************************************************************)
\* Options that the selected algorithm never reads keep their defaults.
Configs ==
    {c \in [algorithm : Algorithms \cup {UnknownAlgorithm}, max : Maxes, window : Windows,
            precision : Precisions \cup {DefaultPrecision},
            refillRate : RefillRates \cup {DefaultRefillRate},
            refillInterval : RefillIntervals \cup {DefaultRefillInterval},
            enableCleanup : BOOLEAN] :
        /\ IF c.algorithm = "SLIDING_WINDOW"
           THEN c.precision \in Precisions
           ELSE c.precision = DefaultPrecision
        /\ IF c.algorithm = "TOKEN_BUCKET"
           THEN c.refillRate \in RefillRates /\ c.refillInterval \in RefillIntervals
           ELSE c.refillRate = DefaultRefillRate
                /\ c.refillInterval = DefaultRefillInterval}

setupCleanupInterval(h) == IF h = "node" THEN "timer" ELSE "undefined"

Init ==
    /\ config \in Configs
    /\ host \in (IF config.enableCleanup THEN {"node", "browser"} ELSE {"node"})
    /\ now = 0
    /\ store = <<>>
    /\ timerActive = config.enableCleanup
    /\ cleanupInterval =
          (IF config.enableCleanup THEN setupCleanupInterval(host) ELSE "undefined")
    /\ result = NoResult
    /\ lastOp = NoCall
    /\ reqs = [k \in Keys |-> <<>>]
    /\ seen = [k \in Keys |-> <<>>]
    /\ calls = 0
    /\ held = NoHeld
    /\ verdicts = [k \in Keys |-> <<>>]

(***************************************************************************)
(* Operations.                                                             *)
(***************************************************************************)
\* The spread copy handed out by getEntry has its own scalar fields and the
\* stored entry's buckets Map; the Map stays the stored one for as long as
\* the entry is in the store.  When the entry leaves the store the caller is
\* left with the Map as it was.
HeldBuckets == IF held.map = "shared" THEN store[held.key].buckets ELSE held.buckets

Detached(st) ==
    IF held.map = "shared" /\ held.key \notin DOMAIN st
    THEN [held EXCEPT !.map = "own", !.buckets = store[held.key].buckets]
    ELSE held

Check(endpoint, identifier) ==
    LET key == generateKey(endpoint, identifier)
        r == check(store, key, now)
    IN  /\ calls < MaxChecks
        /\ calls' = calls + 1
        /\ store' = r.store
        /\ result' = r.result
        /\ lastOp' = [op |-> IF Threw(r) THEN "throw" ELSE "check", key |-> key]
        /\ reqs' = IF Threw(r) THEN reqs ELSE [reqs EXCEPT ![key] = Append(@, now)]
        /\ seen' = IF Threw(r) THEN seen ELSE [seen EXCEPT ![key] = Append(@, now)]
        /\ verdicts' = IF Threw(r) THEN verdicts
                       ELSE [verdicts EXCEPT ![key] = Append(@, r.result.limited)]
        /\ UNCHANGED <<config, host, now, timerActive, cleanupInterval, held>>

\* The Result of a get is a function of the state it is called in,
\* get(store, key, now).result; the step keeps only what get writes.
Get(endpoint, identifier) ==
    LET key == generateKey(endpoint, identifier)
        r == get(store, key, now)
    IN  /\ store' = r.store
        /\ result' = NoResult
        /\ lastOp' = NoCall
        /\ UNCHANGED <<config, host, now, timerActive, cleanupInterval, reqs, verdicts, seen, calls,
                       held>>

\* Variant: sweeps run whether or not a timer is scheduled.
Sweep_unguarded ==
    /\ store' = cleanupExpiredEntries(store, now)
    /\ seen' = [k \in Keys |-> IF k \in DOMAIN store' THEN seen[k] ELSE <<>>]
    /\ result' = NoResult
    /\ lastOp' = NoCall
    /\ held' = Detached(store')
    /\ UNCHANGED <<config, host, now, timerActive, cleanupInterval, reqs, verdicts, calls>>

\* The timer callback.
Sweep ==
    /\ timerActive
    /\ store' = cleanupExpiredEntries(store, now)
    /\ seen' = [k \in Keys |-> IF k \in DOMAIN store' THEN seen[k] ELSE <<>>]
    /\ result' = NoResult
    /\ lastOp' = NoCall
    /\ held' = Detached(store')
    /\ UNCHANGED <<config, host, now, timerActive, cleanupInterval, reqs, verdicts, calls>>

\* Variant: clear() stops the timer and leaves the entries in place.
Clear_timerOnly ==
    /\ IF cleanupInterval # "undefined"
       THEN timerActive' = FALSE /\ cleanupInterval' = "undefined"
       ELSE UNCHANGED <<timerActive, cleanupInterval>>
    /\ reqs' = [k \in Keys |-> <<>>]
    /\ verdicts' = [k \in Keys |-> <<>>]
    /\ seen' = [k \in Keys |-> <<>>]
    /\ result' = NoResult
    /\ lastOp' = [op |-> "clear", key |-> ""]
    /\ UNCHANGED <<config, host, now, calls, store, held>>

Clear ==
    /\ store' = <<>>
    /\ IF cleanupInterval # "undefined"
       THEN timerActive' = FALSE /\ cleanupInterval' = "undefined"
       ELSE UNCHANGED <<timerActive, cleanupInterval>>
    /\ reqs' = [k \in Keys |-> <<>>]
    /\ verdicts' = [k \in Keys |-> <<>>]
    /\ seen' = [k \in Keys |-> <<>>]
    /\ result' = NoResult
    /\ lastOp' = [op |-> "clear", key |-> ""]
    /\ held' = Detached(store')
    /\ UNCHANGED <<config, host, now, calls>>

\* The clock advances by one millisecond.
Tick ==
    /\ now < MaxTime
    /\ now' = now + 1
    /\ result' = NoResult
    /\ lastOp' = NoCall
    /\ UNCHANGED <<config, host, store, timerActive, cleanupInterval, reqs, verdicts, seen, calls,
                   held>>

Next ==
    \/ \E p \in Pairs : Check(p[1], p[2])
    \/ \E p \in Pairs : Get(p[1], p[2])
    \/ Sweep
    \/ Clear
    \/ Tick

Spec == Init /\ [][Next]_vars

\* The same program with the algorithm option fixed.
InitFixed == Init /\ config.algorithm = "FIXED_WINDOW"
InitSliding == Init /\ config.algorithm = "SLIDING_WINDOW"
InitToken == Init /\ config.algorithm = "TOKEN_BUCKET"

SpecFixed == InitFixed /\ [][Next]_vars
SpecSliding == InitSliding /\ [][Next]_vars
SpecToken == InitToken /\ [][Next]_vars

\* Limits of zero and below, with each of the three algorithms.
DegenerateMaxes == {-1, 0}

InitDegenerate ==
    /\ config \in {[c EXCEPT !.max = m] : c \in Configs, m \in DegenerateMaxes}
    /\ config.algorithm \in Algorithms
    /\ host \in (IF config.enableCleanup THEN {"node", "browser"} ELSE {"node"})
    /\ now = 0
    /\ store = <<>>
    /\ timerActive = config.enableCleanup
    /\ cleanupInterval =
          (IF config.enableCleanup THEN setupCleanupInterval(host) ELSE "undefined")
    /\ result = NoResult
    /\ lastOp = NoCall
    /\ reqs = [k \in Keys |-> <<>>]
    /\ seen = [k \in Keys |-> <<>>]
    /\ calls = 0
    /\ held = NoHeld
    /\ verdicts = [k \in Keys |-> <<>>]

SpecDegenerate == InitDegenerate /\ [][Next]_vars

(***************************************************************************)
(* A window limiter with cleanup enabled on which clear() is never called. *)
(* The interval timer keeps firing: a sweep that has an entry to delete is *)
(* not postponed forever.                                                  *)
(***************************************************************************)
InitLive ==
    /\ Init
    /\ config.enableCleanup
    /\ config.algorithm \in {"FIXED_WINDOW", "SLIDING_WINDOW"}

NextLive ==
    \/ \E p \in Pairs : Check(p[1], p[2])
    \/ \E p \in Pairs : Get(p[1], p[2])
    \/ Sweep
    \/ Tick

SpecLive == InitLive /\ [][NextLive]_vars /\ WF_vars(Sweep)

(***************************************************************************)
(* A caller that keeps the object returned by getEntry and writes to it.   *)
(***************************************************************************)
GetEntry(endpoint, identifier) ==
    LET key == generateKey(endpoint, identifier)
        entry == getEntry(store, key)
    IN  /\ held' = IF entry = NullEntry
                   THEN NoHeld
                   ELSE [key |-> key,
                         fields |-> [f \in DOMAIN entry \ {"buckets"} |-> entry[f]],
                         map |-> IF "buckets" \in DOMAIN entry THEN "shared" ELSE "none",
                         buckets |-> <<>>]
        /\ result' = NoResult
        /\ lastOp' = NoCall
        /\ UNCHANGED <<config, host, now, store, timerActive, cleanupInterval, reqs, verdicts, seen,
                       calls>>

\* entry.<field> = 999 on the returned object, or entry.buckets.clear().
MutateEntry(field) ==
    /\ field \in DOMAIN held.fields \cup (IF held.map = "none" THEN {} ELSE {"buckets"})
    /\ IF field # "buckets"
       THEN held' = [held EXCEPT !.fields[field] = Mutated] /\ UNCHANGED store
       ELSE IF held.map = "shared"
       THEN store' = [store EXCEPT ![held.key].buckets = <<>>] /\ UNCHANGED held
       ELSE held' = [held EXCEPT !.buckets = <<>>] /\ UNCHANGED store
    /\ result' = NoResult
    /\ lastOp' = NoCall
    /\ UNCHANGED <<config, host, now, timerActive, cleanupInterval, reqs, verdicts, seen, calls>>

NextCaller ==
    \/ Next
    \/ \E p \in Pairs : GetEntry(p[1], p[2])
    \/ \E field \in EntryFields : MutateEntry(field)

\* One limit and one window length; every algorithm, precision, refill rate,
\* host and cleanup setting.
InitCaller == Init /\ config.max = 1 /\ config.window = 2

SpecCaller == InitCaller /\ [][NextCaller]_vars

(***************************************************************************)
(* What the history of calls says a check should report.                   *)
(***************************************************************************)
Last(seq) == seq[Len(seq)]

Bucket(t) == (t \div config.precision) * config.precision

\* The window that the n-th check of seq falls in and its rank in that window:
\* a check at or after the end of the open window opens the next one.
RECURSIVE WindowOf(_, _)
WindowOf(seq, n) ==
    IF n = 1 THEN [t0 |-> seq[1], k |-> 1]
    ELSE LET w == WindowOf(seq, n - 1)
         IN  IF seq[n] < w.t0 + config.window
             THEN [t0 |-> w.t0, k |-> w.k + 1]
             ELSE [t0 |-> seq[n], k |-> 1]

\* Earlier checks of seq whose bucket is still inside the trailing window of
\* the last one.
InTrailingWindow(seq) ==
    {i \in 1..(Len(seq) - 1) : Bucket(seq[i]) > Bucket(Last(seq)) - config.window}

IsCheck == lastOp.op = "check"

\* C1: fixed window - the k-th check made inside the window that a check at
\* t0 opened reports current = k and limited = (k > max); the count is never
\* clamped to max.
C1_FixedWindowCounts ==
    (IsCheck /\ config.algorithm = "FIXED_WINDOW") =>
        LET w == WindowOf(reqs[lastOp.key], Len(reqs[lastOp.key]))
        IN  /\ result.current = w.k
            /\ result.limited = (w.k > config.max)
            /\ result.nan = {}

\* Three checks in one window with max = 1: the third reports current = 3.
C1_Witness ==
    /\ IsCheck /\ config.algorithm = "FIXED_WINDOW" /\ config.max = 1
    /\ Len(reqs[lastOp.key]) = 3
    /\ WindowOf(reqs[lastOp.key], 3).k = 3
    /\ result.current = 3 /\ result.limited

\* C2: sliding window - as long as the key's entry was not evicted, a check
\* reports current = 1 + the number of earlier checks on the key whose bucket
\* timestamp is strictly greater than roundedNow - window, and
\* limited = (current > max); rejected checks count like admitted ones.
C2_SlidingWindowCounts ==
    (IsCheck /\ config.algorithm = "SLIDING_WINDOW") =>
        LET n == 1 + Cardinality(InTrailingWindow(seen[lastOp.key]))
        IN  /\ result.current = n
            /\ result.limited = (n > config.max)
            /\ result.nan = {}

\* A check that counts a rejected earlier check and leaves out a bucket lying
\* exactly on roundedNow - window.
C2_Witness ==
    /\ IsCheck /\ config.algorithm = "SLIDING_WINDOW" /\ config.max = 1
    /\ Len(seen[lastOp.key]) = 3
    /\ Bucket(seen[lastOp.key][1]) = Bucket(now) - config.window
    /\ Bucket(seen[lastOp.key][2]) > Bucket(now) - config.window
    /\ result.current = 2 /\ result.limited

\* C3: token bucket - counted from the check that created the entry (a full
\* bucket), and while less than one refill interval has passed since then, the
\* k-th check reports current = k, remaining = max(max - k, 0) and
\* limited = (k > max), and the stored tokens are max - k (not floored at 0).
C3_TokenBucketDrains ==
    (IsCheck /\ config.algorithm = "TOKEN_BUCKET") =>
        LET s == seen[lastOp.key]
            k == Len(s)
        IN  (Last(s) - s[1] < config.refillInterval) =>
                /\ result.current = k
                /\ result.remaining = Max2(config.max - k, 0)
                /\ result.limited = (k > config.max)
                /\ result.nan = {}
                /\ store[lastOp.key].tokens = config.max - k
                /\ store[lastOp.key].lastRefill = s[1]

\* Three checks on a bucket of capacity 1 before any refill: tokens = -2.
C3_Witness ==
    /\ IsCheck /\ config.algorithm = "TOKEN_BUCKET" /\ config.max = 1
    /\ Len(seen[lastOp.key]) = 3
    /\ Last(seen[lastOp.key]) - seen[lastOp.key][1] < config.refillInterval
    /\ store[lastOp.key].tokens = -2
    /\ result.current = 3 /\ result.remaining = 0 /\ result.limited

\* A step that is a check on key (a check always advances calls).
CheckStep(key) ==
    lastOp'.op = "check" /\ lastOp'.key = key /\ calls' = calls + 1

\* C4: fixed window - a check on a key whose stored windowEnd is <= now (now
\* equal to windowEnd included) opens a fresh window: current = 1,
\* reset = now + window, and limited = false whenever max >= 1, whatever count
\* the expired window had reached.
C4_ExpiredWindowReopens ==
    [][\A key \in Keys :
          (/\ CheckStep(key)
           /\ config.algorithm = "FIXED_WINDOW"
           /\ key \in DOMAIN store
           /\ store[key].resetTime <= now) =>
              /\ result'.current = 1
              /\ result'.reset = now + config.window
              /\ (config.max >= 1 => ~result'.limited)
              /\ store'[key] = [count |-> 1, resetTime |-> now + config.window]]_vars

\* With cleanup disabled, a window that reached count 2 > max = 1 is reopened
\* by a check made exactly at its windowEnd.
C4_Witness ==
    /\ IsCheck /\ config.algorithm = "FIXED_WINDOW"
    /\ config.max = 1 /\ ~config.enableCleanup
    /\ Len(reqs[lastOp.key]) = 3
    /\ WindowOf(reqs[lastOp.key], 2).k = 2
    /\ now = reqs[lastOp.key][1] + config.window
    /\ Last(reqs[lastOp.key]) = now
    /\ result.current = 1 /\ ~result.limited /\ result.reset = now + config.window

\* Whole refill intervals elapsed since the stored lastRefill, and the tokens
\* they are worth.
Ticks(key) == (now - store[key].lastRefill) \div config.refillInterval

Added(key) == Ticks(key) * config.refillRate

Clamp(tokens, added) == Min2(Max2(tokens + added, added), config.max)

\* C5 as stated: token bucket - on a check with ticks >= 1 the stored tokens
\* after the check are min(max(tokensBefore + added, added), max) - 1, where
\* added = ticks * refillRate.
C5_RefillClampAnyRate ==
    [][\A key \in Keys :
          (/\ CheckStep(key)
           /\ config.algorithm = "TOKEN_BUCKET"
           /\ key \in DOMAIN store
           /\ Ticks(key) >= 1) =>
              store'[key].tokens = Clamp(store[key].tokens, Added(key)) - 1]_vars

\* C5 amended: token bucket - on a check with ticks >= 1 and
\* added = ticks * refillRate >= 1, the stored tokens after the check are
\* min(max(tokensBefore + added, added), max) - 1 and lastRefill is the time of
\* the check.
C5_RefillClamp ==
    [][\A key \in Keys :
          (/\ CheckStep(key)
           /\ config.algorithm = "TOKEN_BUCKET"
           /\ key \in DOMAIN store
           /\ Ticks(key) >= 1
           /\ Added(key) >= 1) =>
              /\ store'[key].tokens = Clamp(store[key].tokens, Added(key)) - 1
              /\ store'[key].lastRefill = now
              /\ result'.remaining = Max2(store'[key].tokens, 0)
              /\ result'.limited = (store'[key].tokens < 0)]_vars

\* A bucket of capacity 1 driven to -1 by two checks and left for one refill
\* interval admits the third check with remaining = 0.
C5_Witness ==
    /\ IsCheck /\ config.algorithm = "TOKEN_BUCKET"
    /\ config.max = 1 /\ config.refillRate = 1
    /\ Len(seen[lastOp.key]) = 3
    /\ seen[lastOp.key][2] - seen[lastOp.key][1] < config.refillInterval
    /\ seen[lastOp.key][3] - seen[lastOp.key][1] >= config.refillInterval
    /\ store[lastOp.key].tokens = 0
    /\ store[lastOp.key].lastRefill = now
    /\ result.remaining = 0 /\ ~result.limited

\* C6: sliding window - under any interleaving of sweeps with checks, the
\* current reported by a check includes every earlier request (since the last
\* clear) whose bucket is still inside the trailing window: the sweep deletes
\* no entry that still holds such a bucket.
C6_SweepKeepsLiveBuckets ==
    (IsCheck /\ config.algorithm = "SLIDING_WINDOW") =>
        result.current = 1 + Cardinality(InTrailingWindow(reqs[lastOp.key]))

\* C7: get never counts a request - in every reachable state and for every
\* key, a check made at any time from now on reports the same current and
\* limited whether or not a get on that key precedes it, and so does a check
\* made right after two gets.
C7_GetDoesNotCount ==
    \A key \in Keys :
        /\ \A t \in now..MaxTime :
              LET direct == check(store, key, t).result
                  after == check(get(store, key, now).store, key, t).result
              IN  after.current = direct.current /\ after.limited = direct.limited
        /\ LET direct == check(store, key, now).result
               twice == get(get(store, key, now).store, key, now).store
               after == check(twice, key, now).result
           IN  after.current = direct.current /\ after.limited = direct.limited

\* A sliding-window entry that a get has pruned down to no bucket at all (a
\* check always leaves one): the check that follows reports current = 1, as it
\* does without the get.
C7_Witness ==
    /\ config.algorithm = "SLIDING_WINDOW"
    /\ \E key \in DOMAIN store :
          /\ store[key].buckets = <<>>
          /\ store[key].count = 0
          /\ Len(seen[key]) >= 2
          /\ check(store, key, now).result.current = 1

\* C8: isolation - a check on one (resource, caller) pair never changes what
\* get, getEntry or check report for a different pair.
C8_Isolation ==
    [][\A p \in Pairs : \A q \in Pairs \ {p} :
          Check(p[1], p[2]) =>
              LET kq == generateKey(q[1], q[2])
              IN  /\ get(store', kq, now).result = get(store, kq, now).result
                  /\ getEntry(store', kq) = getEntry(store, kq)
                  /\ check(store', kq, now).result = check(store, kq, now).result]_vars

ResultShape(r) ==
    /\ r.nan = {}
    /\ r.remaining = Max2(r.limit - r.current, 0)
    /\ r.remaining >= 0
    /\ r.limit = config.max
    /\ r.window = config.window

\* C9: every Result returned by check or get, for every key (seen or never
\* seen), has remaining = max(limit - current, 0), remaining a non-negative
\* integer, limit = the configured max and window = the configured window.
C9_ResultShape ==
    /\ IsCheck => ResultShape(result)
    /\ \A key \in Keys : ResultShape(get(store, key, now).result)

\* C10: get on a key with no stored entry returns fresh state under each
\* algorithm: limited = false, current = 0, remaining = max.
C10_GetFresh ==
    \A key \in Keys \ DOMAIN store :
        LET r == get(store, key, now).result
        IN  /\ ~r.limited
            /\ r.nan = {}
            /\ r.current = 0
            /\ r.remaining = config.max

\* Checks of seq whose bucket is inside the window that trails the clock.
LiveNow(seq) ==
    {i \in 1..Len(seq) : Bucket(seq[i]) > Bucket(now) - config.window}

\* C11: sliding window - get reports current = the sum of the counts of the
\* key's buckets with timestamp > roundedNow - window and
\* remaining = max(max - current, 0); after n checks that are still inside the
\* window it reports current = n (so 0 and remaining = max once every bucket
\* has left the window), and a repeated get reports the same.
C11_GetReportsLiveChecks ==
    config.algorithm = "SLIDING_WINDOW" =>
        \A key \in Keys :
            LET g == get(store, key, now)
                n == Cardinality(LiveNow(reqs[key]))
            IN  /\ key \in DOMAIN store =>
                      g.result.current =
                          SumOver(store[key].buckets,
                                  {ts \in DOMAIN store[key].buckets :
                                      ts > Bucket(now) - config.window})
                /\ g.result.remaining = Max2(config.max - g.result.current, 0)
                /\ get(g.store, key, now).result = g.result
                /\ g.result.current = n
                /\ n = 0 => g.result.remaining = config.max

\* The object in the caller's hands, as the caller reads it.
HeldObject == [fields |-> held.fields, buckets |-> HeldBuckets]

\* C12: getEntry returns a defensive copy - a write to any part of the
\* returned object (count, resetTime, tokens, lastRefill or the contents of
\* its buckets map) never changes what a later getEntry, get or check on any
\* key reports, and a later check never changes an object returned earlier.
C12_DefensiveCopy ==
    [][/\ (\E field \in EntryFields : MutateEntry(field)) =>
              \A key \in Keys :
                  /\ getEntry(store', key) = getEntry(store, key)
                  /\ get(store', key, now).result = get(store, key, now).result
                  /\ check(store', key, now).result = check(store, key, now).result
       /\ (\E p \in Pairs : Check(p[1], p[2])) => HeldObject' = HeldObject]_vars

\* C13: token-bucket entries are not targeted by the eviction sweep - in
\* token-bucket mode a key that was checked since construction or the last
\* clear still has its entry, whatever sweeps have run, so its tokens and
\* lastRefill are never reset to a full bucket by eviction.
C13_SweepSparesTokenBuckets ==
    config.algorithm = "TOKEN_BUCKET" =>
        \A key \in Keys : reqs[key] # <<>> => key \in DOMAIN store

\* The stored entry of key has reached its resetTime.
Due(key) == key \in DOMAIN store /\ store[key].resetTime <= now

AllDue == \A key \in DOMAIN store : store[key].resetTime <= now

\* C14: with cleanup enabled and clear never called, in fixed- or
\* sliding-window mode a stored entry whose resetTime has passed does not stay:
\* it is eventually deleted by the sweep, unless the key is checked again or
\* its resetTime moves past the clock again; so once the checks have stopped
\* and every stored entry has reached its resetTime, getSize() eventually
\* returns 0.
C14_ExpiredEntriesEvicted ==
    /\ \A key \in Keys : \A n \in 0..MaxChecks :
          (Due(key) /\ Len(reqs[key]) = n) ~>
              \/ key \notin DOMAIN store
              \/ Len(reqs[key]) > n
              \/ store[key].resetTime > now
    /\ (calls = MaxChecks /\ store # <<>> /\ AllDue) ~> (getSize(store) = 0 \/ ~AllDue)

\* Every key that was checked has been swept away.
C14_Witness ==
    /\ config.enableCleanup
    /\ config.algorithm \in {"FIXED_WINDOW", "SLIDING_WINDOW"}
    /\ calls = MaxChecks
    /\ \A key \in Keys : reqs[key] # <<>>
    /\ getSize(store) = 0

\* C15: clear() empties the store - getSize() right after clear() is 0, and
\* under each algorithm the first check on a key after clear() returns exactly
\* the Result that a first-ever check on a never-seen key returns at that time.
C15_ClearEmptiesStore ==
    /\ lastOp.op = "clear" => getSize(store) = 0
    /\ (IsCheck /\ Len(reqs[lastOp.key]) = 1) =>
           result = check(<<>>, lastOp.key, now).result

\* Two checks, a clear, and a third check that is admitted with current = 1
\* under max = 1.
C15_Witness ==
    /\ IsCheck /\ calls = MaxChecks /\ config.max = 1
    /\ Len(reqs[lastOp.key]) = 1
    /\ \A key \in Keys \ {lastOp.key} : reqs[key] = <<>>
    /\ result.current = 1 /\ ~result.limited

\* C16: clear() halts the eviction timer that the constructor started - once
\* clear() has returned the timer is no longer scheduled, so it fires no
\* further sweep, in every host, whether the handle returned by setInterval
\* has an unref method or not.
C16_ClearHaltsTimer == lastOp.op = "clear" => ~timerActive

\* C17: the instance stays usable after clear(), and if cleanup was enabled a
\* check made after clear() restarts the sweep, so that the entry it creates
\* is evicted once expired - whenever a check has returned on an instance
\* configured with cleanup, the eviction timer is scheduled.
C17_CheckRestartsSweep == (IsCheck /\ config.enableCleanup) => timerActive

\* The entry that a first-ever check on key creates now.
FreshEntry(key) == check(<<>>, key, now).store[key]

\* C18: with cleanup disabled an expired entry stays resident - getSize()
\* never decreases except through clear(), and a check on a key whose entry
\* has expired (resetTime <= now) replaces that entry with a fresh one: size
\* unchanged, limited = false for max >= 1.
C18_ExpiredEntryReplaced ==
    [][(~config.enableCleanup
        /\ config.algorithm \in {"FIXED_WINDOW", "SLIDING_WINDOW"}) =>
          /\ getSize(store') >= getSize(store) \/ lastOp'.op = "clear"
          /\ \A key \in DOMAIN store :
                (CheckStep(key) /\ store[key].resetTime <= now) =>
                    /\ store'[key] = FreshEntry(key)
                    /\ getSize(store') = getSize(store)
                    /\ config.max >= 1 => ~result'.limited]_vars

\* Nothing the entry has counted is still inside its window: a fixed window
\* that has ended, or sliding-window buckets that have all left the trailing
\* window.  A token bucket has no expiry.
FullyExpired(key) ==
    CASE config.algorithm = "FIXED_WINDOW" -> store[key].resetTime <= now
      [] config.algorithm = "SLIDING_WINDOW" ->
            \A ts \in DOMAIN store[key].buckets : ts <= Bucket(now) - config.window
      [] OTHER -> FALSE

\* C18 (amended): with cleanup disabled getSize() never decreases except
\* through clear(), and a check on a key whose entry has fully expired
\* replaces that entry with a fresh one: size unchanged, limited = false for
\* max >= 1.
C18_FullyExpiredEntryReplaced ==
    [][~config.enableCleanup =>
          /\ getSize(store') >= getSize(store) \/ lastOp'.op = "clear"
          /\ \A key \in DOMAIN store :
                (CheckStep(key) /\ FullyExpired(key)) =>
                    /\ store'[key] = FreshEntry(key)
                    /\ getSize(store') = getSize(store)
                    /\ config.max >= 1 => ~result'.limited]_vars

\* Cleanup disabled: the second check on a key comes a full window after the
\* first, finds the old entry still stored and starts over at current = 1.
C18_Witness ==
    /\ IsCheck /\ ~config.enableCleanup /\ config.max = 1
    /\ config.algorithm \in {"FIXED_WINDOW", "SLIDING_WINDOW"}
    /\ Len(seen[lastOp.key]) = 2
    /\ seen[lastOp.key][2] >= seen[lastOp.key][1] + config.window
    /\ store[lastOp.key] = FreshEntry(lastOp.key)
    /\ result.current = 1 /\ ~result.limited

\* C19: an unrecognized algorithm selector is a construction-time error, not
\* a per-call error - construction with a selector outside FIXED_WINDOW,
\* SLIDING_WINDOW, TOKEN_BUCKET fails, so that on a constructed instance check
\* never throws, whatever strings it is given.
C19_UnknownAlgorithmRejectedAtConstruction == lastOp.op # "throw"

\* C20: an unrecognized algorithm selector is never silently defaulted - on an
\* instance that carries one, check and get both report the configuration
\* error instead of returning a Result computed by another algorithm's rules.
C20_NoSilentDefault ==
    config.algorithm \notin Algorithms =>
        \A key \in Keys :
            /\ Threw(check(store, key, now))
            /\ Threw(get(store, key, now))

\* C21: getSize() is the number of stored keys, expired-but-unswept ones
\* included - a check on a key with no stored entry increases it by exactly 1,
\* a check on a key that has a stored entry (live or expired) leaves it
\* unchanged, and only a sweep or clear() decreases it.
C21_SizeAccounting ==
    [][/\ \A key \in Keys :
             CheckStep(key) =>
                 getSize(store') =
                     getSize(store) + (IF key \in DOMAIN store THEN 0 ELSE 1)
       /\ getSize(store') < getSize(store) => (Sweep \/ Clear)]_vars

\* A check has just gone to a key whose stored entry had expired unswept, next
\* to another stored key: the size is still 2.
C21_Witness ==
    /\ IsCheck
    /\ getSize(store) = 2
    /\ Len(seen[lastOp.key]) >= 2
    /\ result.current = 1
    /\ \E key \in DOMAIN store : store[key].resetTime <= now

\* Checks on key (since construction or the last clear) that were made in the
\* closed interval [from, to] and returned limited = false.
AdmittedIn(key, from, to) ==
    {i \in 1..Len(reqs[key]) :
        /\ ~verdicts[key][i]
        /\ reqs[key][i] >= from
        /\ reqs[key][i] <= to}

\* C22: sliding window rate bound, with cleanup disabled and precision
\* dividing window - for every key and every time t, among the checks on that
\* key made in the closed interval [t - (window - precision), t] at most max
\* returned limited = false.
C22_SlidingRateBound ==
    (/\ config.algorithm = "SLIDING_WINDOW"
     /\ ~config.enableCleanup
     /\ config.window % config.precision = 0) =>
        \A key \in Keys : \A t \in 0..MaxTime :
            Cardinality(AdmittedIn(key, t - (config.window - config.precision), t))
                <= config.max

\* max = 1: an admitted check, a rejected one, and a check admitted again as
\* soon as the first has left every interval of that length.
C22_Witness ==
    /\ IsCheck /\ config.algorithm = "SLIDING_WINDOW" /\ ~config.enableCleanup
    /\ config.window % config.precision = 0 /\ config.max = 1
    /\ verdicts[lastOp.key] = <<FALSE, TRUE, FALSE>>
    /\ reqs[lastOp.key][3] = reqs[lastOp.key][1] + config.window - config.precision + 1

\* C23: token bucket rate bound, with cleanup disabled, max >= 0 and
\* refillRate >= 1 - for a key first checked at t0, the number of checks on it
\* that returned limited = false up to any later time t is at most
\* max + floor((t - t0) / refillInterval) * refillRate, the forgiven deficit
\* notwithstanding.
C23_TokenRateBound ==
    (/\ config.algorithm = "TOKEN_BUCKET"
     /\ ~config.enableCleanup
     /\ config.refillRate >= 1) =>
        \A key \in Keys :
            reqs[key] # <<>> =>
                LET t0 == reqs[key][1]
                IN  \A t \in t0..MaxTime :
                        Cardinality(AdmittedIn(key, t0, t)) <=
                            config.max
                                + ((t - t0) \div config.refillInterval) * config.refillRate

\* max = 1, refillRate = 1: one check admitted, one rejected (tokens = -1), and
\* after one interval the deficit is forgiven and a second check is admitted,
\* which exhausts the bound.
C23_Witness ==
    /\ IsCheck /\ config.algorithm = "TOKEN_BUCKET" /\ ~config.enableCleanup
    /\ config.max = 1 /\ config.refillRate = 1
    /\ verdicts[lastOp.key] = <<FALSE, TRUE, FALSE>>
    /\ now = reqs[lastOp.key][1] + config.refillInterval
    /\ Cardinality(AdmittedIn(lastOp.key, reqs[lastOp.key][1], now)) = 2

\* C24: get agrees with check at the same instant - in every reachable state,
\* for every stored key, under each algorithm, a check made right after a get
\* reports the current of the get plus 1; in particular get on a fixed-window
\* entry whose resetTime <= now reports current = 0 and limited = false, and
\* get on a token bucket applies the refill that is due.
C24_GetAgreesWithCheck ==
    \A key \in DOMAIN store :
        LET g == get(store, key, now)
            c == check(g.store, key, now)
        IN  /\ c.result.current = g.result.current + 1
            /\ (config.algorithm = "FIXED_WINDOW" /\ store[key].resetTime <= now) =>
                   (g.result.current = 0 /\ ~g.result.limited)

\* C25: every Result returned by check, under each algorithm and with
\* window > 0, has reset > now, so that a rejected caller is always given a
\* reset timestamp in the future.
C25_ResetInFuture ==
    (IsCheck /\ config.window > 0) => (result.nan = {} /\ result.reset > now)

CeilDiv(a, b) == (a + b - 1) \div b

\* C26: sliding-window memory bound - in every reachable state each stored
\* sliding-window entry holds at most ceil(window / precision) buckets, and
\* every bucket timestamp is a multiple of precision (the timestamps, being
\* the keys of a map, are distinct).
C26_BucketBound ==
    config.algorithm = "SLIDING_WINDOW" =>
        \A key \in DOMAIN store :
            /\ Cardinality(DOMAIN store[key].buckets)
                   <= CeilDiv(config.window, config.precision)
            /\ \A ts \in DOMAIN store[key].buckets : ts % config.precision = 0

\* Three checks in three different buckets: the first bucket has been dropped
\* and the entry holds exactly ceil(window / precision) buckets.
C26_Witness ==
    /\ IsCheck /\ config.algorithm = "SLIDING_WINDOW"
    /\ Len(seen[lastOp.key]) = 3
    /\ Bucket(seen[lastOp.key][1]) < Bucket(seen[lastOp.key][2])
    /\ Bucket(seen[lastOp.key][2]) < Bucket(seen[lastOp.key][3])
    /\ Bucket(seen[lastOp.key][1]) \notin DOMAIN store[lastOp.key].buckets
    /\ Cardinality(DOMAIN store[lastOp.key].buckets)
           = CeilDiv(config.window, config.precision)

\* C27: sliding window - the reset reported by every check is the timestamp
\* of the oldest bucket that survived the pruning, the current bucket
\* included, plus window; the entry is never without a bucket after a check,
\* so the fallback roundedNow + window is not what the check reports unless
\* the current bucket is the oldest.
C27_ResetFromOldestBucket ==
    (IsCheck /\ config.algorithm = "SLIDING_WINDOW") =>
        LET key == lastOp.key
            surviving == {Bucket(seen[key][i]) : i \in LiveNow(seen[key])}
        IN  /\ Bucket(now) \in surviving
            /\ DOMAIN store[key].buckets = surviving
            /\ result.reset = SetMin(surviving) + config.window
            /\ store[key].resetTime = result.reset

\* Three checks in three different buckets: the first bucket has been pruned
\* and the reset is counted from the second, not from the current one.
C27_Witness ==
    /\ IsCheck /\ config.algorithm = "SLIDING_WINDOW"
    /\ Len(seen[lastOp.key]) = 3
    /\ Bucket(seen[lastOp.key][1]) <= Bucket(now) - config.window
    /\ Bucket(seen[lastOp.key][2]) > Bucket(now) - config.window
    /\ Bucket(seen[lastOp.key][2]) < Bucket(now)
    /\ result.reset = Bucket(seen[lastOp.key][2]) + config.window

\* C28: token-bucket capacity invariant - in every reachable state each
\* stored token-bucket entry has tokens <= max, for any elapsed time and any
\* refillRate, refillRate > max included.
C28_TokensAtMostMax ==
    config.algorithm = "TOKEN_BUCKET" =>
        \A key \in DOMAIN store : store[key].tokens <= config.max

\* refillRate > max: a refill has been cut down to max and the check that
\* took one token from it leaves max - 1.
C28_Witness ==
    /\ IsCheck /\ config.algorithm = "TOKEN_BUCKET"
    /\ config.refillRate > config.max /\ config.max >= 1
    /\ Len(seen[lastOp.key]) >= 2
    /\ store[lastOp.key].lastRefill = now
    /\ now > seen[lastOp.key][1]
    /\ store[lastOp.key].tokens = config.max - 1

\* C29: token bucket - a check leaves lastRefill unchanged when
\* floor((now - lastRefill) / refillInterval) * refillRate is 0 and sets it
\* to now when that amount is at least 1; no other step (a get, a clock step,
\* a check or a sweep that leaves the key stored) changes lastRefill.
C29_LastRefillFrame ==
    [][config.algorithm = "TOKEN_BUCKET" =>
          \A key \in DOMAIN store :
              /\ CheckStep(key) =>
                     store'[key].lastRefill =
                         (IF Added(key) >= 1 THEN now ELSE store[key].lastRefill)
              /\ (~CheckStep(key) /\ key \in DOMAIN store') =>
                     store'[key].lastRefill = store[key].lastRefill]_vars

\* A check made part of the way into a refill interval: lastRefill still
\* holds the earlier time.
C29_Witness ==
    /\ IsCheck /\ config.algorithm = "TOKEN_BUCKET" /\ config.refillRate >= 1
    /\ store[lastOp.key].lastRefill < now
    /\ now - store[lastOp.key].lastRefill < config.refillInterval

\* C30: token bucket with max >= 1 and refillRate >= 1 - a check made when at
\* least one whole refillInterval has elapsed since lastRefill returns
\* limited = false, however deep the deficit was before the refill.
C30_RefillAdmits ==
    [][(/\ config.algorithm = "TOKEN_BUCKET"
        /\ config.max >= 1
        /\ config.refillRate >= 1) =>
          \A key \in DOMAIN store :
              (CheckStep(key) /\ now - store[key].lastRefill >= config.refillInterval) =>
                  (~result'.limited /\ result'.nan = {})]_vars

\* The check before was rejected and left the bucket in deficit; this one
\* comes a whole interval after lastRefill and is admitted.
C30_Witness ==
    /\ IsCheck /\ config.algorithm = "TOKEN_BUCKET"
    /\ config.max >= 1 /\ config.refillRate >= 1
    /\ Len(seen[lastOp.key]) = MaxChecks
    /\ Len(verdicts[lastOp.key]) = MaxChecks
    /\ verdicts[lastOp.key][MaxChecks - 1]
    /\ ~result.limited
    /\ store[lastOp.key].lastRefill = now
    /\ store[lastOp.key].tokens = Min2(config.refillRate, config.max) - 1

\* The store that the first n checks recorded in seen[key] build for key,
\* starting from no entry.
RECURSIVE Replayed(_, _)
Replayed(key, n) ==
    IF n = 0 THEN <<>>
    ELSE checkTokenBucket(Replayed(key, n - 1), key, seen[key][n]).store

\* Tokens in the bucket of key after the n-th of those checks (a bucket not
\* yet created is full).
TokensAfter(key, n) == IF n = 0 THEN config.max ELSE Replayed(key, n)[key].tokens

\* The refill of a check that found `before` tokens and left `after` was cut
\* by neither clamp: there was no deficit to forgive, and the bucket stayed
\* below max.
Unclamped(before, after) == before >= 0 /\ after + 1 < config.max

\* One clock step past the end of the run.
Horizon == MaxTime + 1

\* C31: token bucket loses no refill time - for a key first checked at t0
\* whose bucket never hits either clamp, the tokens credited by all checks up
\* to a check at time t add up to floor((t - t0) / refillInterval) * refillRate,
\* whatever the spacing of the checks.  Stated for the checks made so far
\* followed by one more check at any time t from now on; the tokens credited
\* are the tokens left plus the tokens taken (one per check) minus max.
C31_NoRefillTimeLost ==
    config.algorithm = "TOKEN_BUCKET" =>
        \A key \in DOMAIN store :
            LET n == Len(seen[key])
                t0 == seen[key][1]
            IN  (/\ n >= 1
                 /\ Replayed(key, n)[key] = store[key]
                 /\ \A i \in 2..n : Unclamped(TokensAfter(key, i - 1), TokensAfter(key, i)))
                =>
                \A t \in now..Horizon :
                    LET after == checkTokenBucket(store, key, t).store[key].tokens
                    IN  Unclamped(store[key].tokens, after) =>
                            after + (n + 1) - config.max =
                                ((t - t0) \div config.refillInterval) * config.refillRate

\* C32: a sweep only deletes - it removes exactly the entries with
\* resetTime <= now (boundary included), never creates an entry, and leaves
\* every field of every remaining entry unchanged.
C32_SweepOnlyDeletes ==
    [][Sweep =>
          /\ DOMAIN store' = {key \in DOMAIN store : store[key].resetTime > now}
          /\ \A key \in DOMAIN store' : store'[key] = store[key]]_vars

\* A fixed-window entry created one window ago has been swept at the very
\* instant of its resetTime, while a younger entry stays.
C32_Witness ==
    /\ config.algorithm = "FIXED_WINDOW"
    /\ \E key \in Keys \ DOMAIN store :
          /\ Len(reqs[key]) = 1
          /\ reqs[key][1] + config.window = now
    /\ \E key \in DOMAIN store : store[key].resetTime > now

\* The store that the first n checks recorded in reqs[key] build for key on a
\* fixed-window limiter on which no sweep ever runs.
RECURSIVE SweepFree(_, _)
SweepFree(key, n) ==
    IF n = 0 THEN <<>>
    ELSE checkFixedWindow(SweepFree(key, n - 1), key, reqs[key][n]).store

\* C33: fixed window - the eviction sweep is invisible to check: whatever
\* sweeps were interleaved, every check returns the Result that a limiter
\* without sweeps returns for the same timed checks on the key.
C33_SweepInvisibleToCheck ==
    (IsCheck /\ config.algorithm = "FIXED_WINDOW") =>
        LET key == lastOp.key
            n == Len(reqs[key])
        IN  /\ reqs[key][n] = now
            /\ result = checkFixedWindow(SweepFree(key, n - 1), key, now).result

\* A sweep has evicted the key's entry between two checks: the later check
\* opens a new window, as it does when the expired entry is still stored.
C33_Witness ==
    /\ IsCheck /\ config.algorithm = "FIXED_WINDOW" /\ config.enableCleanup
    /\ Len(reqs[lastOp.key]) >= 2
    /\ Len(seen[lastOp.key]) = 1
    /\ result.current = 1
    /\ result.reset = now + config.window

\* C34: get never creates or deletes an entry, for a never-seen key as well
\* (getSize is the same before and after), and never touches another key's
\* entry; under the fixed window and the token bucket it changes no field of
\* any entry; under the sliding window the only entry it rewrites is the
\* key's own, whose buckets become exactly the ones still inside the trailing
\* window, unchanged.
C34_GetLeavesStoreAlone ==
    [][\A p \in Pairs :
          Get(p[1], p[2]) =>
              LET key == generateKey(p[1], p[2])
              IN  /\ DOMAIN store' = DOMAIN store
                  /\ getSize(store') = getSize(store)
                  /\ \A k \in DOMAIN store \ {key} : store'[k] = store[k]
                  /\ config.algorithm # "SLIDING_WINDOW" => store' = store
                  /\ (config.algorithm = "SLIDING_WINDOW" /\ key \in DOMAIN store) =>
                        LET live == {ts \in DOMAIN store[key].buckets :
                                        ts > Bucket(now) - config.window}
                        IN  store'[key].buckets = [ts \in live |-> store[key].buckets[ts]]]_vars

\* A sliding-window entry that two checks filled with two buckets, both inside
\* the trailing window of the second check, and that now holds the younger
\* bucket only: a get pruned the older one; another key has no entry although
\* the store was read.
C34_Witness ==
    /\ config.algorithm = "SLIDING_WINDOW"
    /\ lastOp = NoCall
    /\ \E key \in DOMAIN store :
          /\ Len(seen[key]) = 2
          /\ Bucket(seen[key][1]) # Bucket(seen[key][2])
          /\ Bucket(seen[key][1]) > Bucket(seen[key][2]) - config.window
          /\ DOMAIN store[key].buckets = {Bucket(seen[key][2])}
          /\ store[key].count = 1
    /\ \E other \in Keys : other \notin DOMAIN store /\ reqs[other] = <<>>

\* C35: fixed window - the window is anchored at the check that opened it and
\* later checks do not extend it: every check reports reset = (time of the
\* check that opened its window) + window, and that is the stored resetTime.
C35_WindowAnchoredAtFirstCheck ==
    (IsCheck /\ config.algorithm = "FIXED_WINDOW") =>
        LET key == lastOp.key
            w == WindowOf(reqs[key], Len(reqs[key]))
        IN  /\ result.reset = w.t0 + config.window
            /\ store[key].resetTime = w.t0 + config.window

\* The third check of a window, made later than the check that opened it,
\* reports the reset of the opening check.
C35_Witness ==
    /\ IsCheck /\ config.algorithm = "FIXED_WINDOW"
    /\ LET key == lastOp.key
           n == Len(reqs[key])
       IN  /\ n = 3
           /\ WindowOf(reqs[key], n).k = 3
           /\ reqs[key][1] < reqs[key][2] /\ reqs[key][2] < now
           /\ result.reset = reqs[key][1] + config.window
           /\ result.reset < now + config.window

\* C36: get is non-interfering even when sweeps run - a get on any key, made
\* now, changes neither the set of entries that a sweep at now or later
\* deletes nor the Result of a check that follows that sweep.
C36_GetInvisibleToSweep ==
    timerActive =>
        \A key \in Keys : \A t \in now..MaxTime :
            LET read == get(store, key, now).store
                swept == cleanupExpiredEntries(store, t)
                sweptAfterGet == cleanupExpiredEntries(read, t)
            IN  /\ DOMAIN sweptAfterGet = DOMAIN swept
                /\ \A k \in Keys :
                      check(sweptAfterGet, k, t).result = check(swept, k, t).result

\* C37: sliding window - in every reachable state the count of each stored
\* entry is the sum of the counts in its buckets; after one check getEntry
\* shows count = 1 and exactly one bucket.
C37_CountIsSumOfBuckets ==
    config.algorithm = "SLIDING_WINDOW" =>
        /\ \A key \in DOMAIN store :
              store[key].count = SumOver(store[key].buckets, DOMAIN store[key].buckets)
        /\ (IsCheck /\ Len(seen[lastOp.key]) = 1) =>
              /\ getEntry(store, lastOp.key).count = 1
              /\ Cardinality(DOMAIN getEntry(store, lastOp.key).buckets) = 1

\* An entry with two buckets, one of them hit twice: count = 3.
C37_Witness ==
    /\ config.algorithm = "SLIDING_WINDOW"
    /\ \E key \in DOMAIN store :
          /\ Cardinality(DOMAIN store[key].buckets) = 2
          /\ \E ts \in DOMAIN store[key].buckets : store[key].buckets[ts] = 2
          /\ store[key].count = 3

\* C38: degenerate limit - with max <= 0 and any of the three algorithms,
\* every check, made now or at any later time (after any amount of token
\* refill), returns normally with limited = true and remaining = 0, and no
\* check has thrown.
C38_DegenerateLimitRejects ==
    config.max <= 0 =>
        /\ lastOp.op # "throw"
        /\ IsCheck => (result.limited /\ result.remaining = 0 /\ result.nan = {})
        /\ \A key \in Keys : \A t \in now..Horizon :
              LET r == check(store, key, t)
              IN  /\ ~Threw(r)
                  /\ r.result.limited /\ r.result.remaining = 0 /\ r.result.nan = {}

\* A token bucket of capacity 0 that a refill of two tokens has brought back
\* to 0: the check that follows the refill is rejected with tokens = -1.
C38_Witness ==
    /\ IsCheck /\ config.algorithm = "TOKEN_BUCKET"
    /\ config.max = 0 /\ config.refillRate = 2
    /\ Len(seen[lastOp.key]) = 3
    /\ store[lastOp.key].lastRefill = now /\ now > seen[lastOp.key][1]
    /\ store[lastOp.key].tokens = -1
    /\ result.limited /\ result.remaining = 0
====
